---- MODULE Spec2Model ----
(***************************************************************************)
(* A model of the BLE beacon reader: the iBeacon decoder and filter of     *)
(* BleService, the AsyncStorage-backed StorageService, the session         *)
(* handlers of ScanningScreen and the form of SettingsScreen.              *)
(*                                                                         *)
(* Strings are sequences of one-character strings, so that case folding,   *)
(* trimming, hyphenation and parsing are computed character by character.  *)
(* An optional value (null / undefined in the source) is the empty         *)
(* sequence None or the one-element sequence Some(x).                      *)
(***************************************************************************)
EXTENDS Integers, Sequences, FiniteSets, TLC

----------------------------------------------------------------------------
(* Bounds of the model *)

\* the clock Date.now() takes the values 0..MaxTime
MaxTime == 1
\* at most MaxReads BeaconRead objects are created in one run
MaxReads == 2
\* at most MaxListeners 'BleManagerDiscoverPeripheral' listeners get registered
MaxListeners == 2

----------------------------------------------------------------------------
(* Optional values *)

None == <<>>
Some(x) == <<x>>
IsSome(o) == o # <<>>
Get(o) == o[1]

----------------------------------------------------------------------------
(* Strings *)

\* the letters a character is folded to by toUpperCase and toLowerCase
UpperOf ==
  "a" :> "A" @@ "b" :> "B" @@ "c" :> "C" @@ "d" :> "D" @@ "e" :> "E" @@
  "f" :> "F" @@ "g" :> "G" @@ "h" :> "H" @@ "i" :> "I" @@ "j" :> "J" @@
  "k" :> "K" @@ "l" :> "L" @@ "m" :> "M" @@ "n" :> "N" @@ "o" :> "O" @@
  "p" :> "P" @@ "q" :> "Q" @@ "r" :> "R" @@ "s" :> "S" @@ "t" :> "T" @@
  "u" :> "U" @@ "v" :> "V" @@ "w" :> "W" @@ "x" :> "X" @@ "y" :> "Y" @@
  "z" :> "Z"
LowerOf ==
  "A" :> "a" @@ "B" :> "b" @@ "C" :> "c" @@ "D" :> "d" @@ "E" :> "e" @@
  "F" :> "f" @@ "G" :> "g" @@ "H" :> "h" @@ "I" :> "i" @@ "J" :> "j" @@
  "K" :> "k" @@ "L" :> "l" @@ "M" :> "m" @@ "N" :> "n" @@ "O" :> "o" @@
  "P" :> "p" @@ "Q" :> "q" @@ "R" :> "r" @@ "S" :> "s" @@ "T" :> "t" @@
  "U" :> "u" @@ "V" :> "v" @@ "W" :> "w" @@ "X" :> "x" @@ "Y" :> "y" @@
  "Z" :> "z"
DigitChars == <<"0","1","2","3","4","5","6","7","8","9">>
DigitOf ==
  "0" :> 0 @@ "1" :> 1 @@ "2" :> 2 @@ "3" :> 3 @@ "4" :> 4 @@
  "5" :> 5 @@ "6" :> 6 @@ "7" :> 7 @@ "8" :> 8 @@ "9" :> 9
HexChars == <<"0","1","2","3","4","5","6","7","8","9","a","b","c","d","e","f">>

UpperChar(c) == IF c \in DOMAIN UpperOf THEN UpperOf[c] ELSE c
LowerChar(c) == IF c \in DOMAIN LowerOf THEN LowerOf[c] ELSE c

\* String.prototype.toUpperCase / toLowerCase
ToUpperCase(s) == [i \in 1..Len(s) |-> UpperChar(s[i])]
ToLowerCase(s) == [i \in 1..Len(s) |-> LowerChar(s[i])]

\* String.prototype.substring(from, to), 0-based and end-exclusive
Substring(s, from, to) ==
  SubSeq(s, (IF from < Len(s) THEN from ELSE Len(s)) + 1,
            (IF to < Len(s) THEN to ELSE Len(s)))

RECURSIVE Join(_, _)
\* Array.prototype.join(sep) of a sequence of strings
Join(parts, sep) ==
  IF Len(parts) = 0 THEN <<>>
  ELSE IF Len(parts) = 1 THEN parts[1]
  ELSE parts[1] \o sep \o Join(Tail(parts), sep)

RECURSIVE RemoveChar(_, _)
\* String.prototype.replace(/c/g, '')
RemoveChar(s, c) ==
  IF Len(s) = 0 THEN <<>>
  ELSE IF Head(s) = c THEN RemoveChar(Tail(s), c)
  ELSE <<Head(s)>> \o RemoveChar(Tail(s), c)

IsSpace(c) == c \in {" ", "\t", "\n"}

RECURSIVE TrimStart(_)
TrimStart(s) ==
  IF Len(s) > 0 /\ IsSpace(Head(s)) THEN TrimStart(Tail(s)) ELSE s

RECURSIVE TrimEnd(_)
TrimEnd(s) ==
  IF Len(s) > 0 /\ IsSpace(s[Len(s)]) THEN TrimEnd(SubSeq(s, 1, Len(s) - 1)) ELSE s

\* String.prototype.trim
Trim(s) == TrimEnd(TrimStart(s))

IsDigitChar(c) == c \in DOMAIN DigitOf
\* [0-9A-F] under the i flag
IsHexChar(c) == IsDigitChar(c) \/ LowerChar(c) \in {"a", "b", "c", "d", "e", "f"}

RECURSIVE DigitsValue(_, _)
\* the value of the longest prefix of decimal digits of s, continuing from acc
DigitsValue(s, acc) ==
  IF Len(s) > 0 /\ IsDigitChar(Head(s))
  THEN DigitsValue(Tail(s), acc * 10 + DigitOf[Head(s)])
  ELSE acc

\* parseInt(text, 10): leading white space, an optional sign, then decimal
\* digits up to the first other character; None stands for NaN
ParseInt(text) ==
  LET t == TrimStart(text)
      neg == Len(t) > 0 /\ Head(t) = "-"
      body == IF Len(t) > 0 /\ Head(t) \in {"-", "+"} THEN Tail(t) ELSE t
  IN  IF Len(body) = 0 \/ ~IsDigitChar(Head(body)) THEN None
      ELSE Some(IF neg THEN 0 - DigitsValue(body, 0) ELSE DigitsValue(body, 0))

RECURSIVE NatToString(_)
\* Number.prototype.toString() of a natural number
NatToString(n) ==
  IF n < 10 THEN <<DigitChars[n + 1]>>
  ELSE NatToString(n \div 10) \o <<DigitChars[(n % 10) + 1]>>

----------------------------------------------------------------------------
(* uuidUtils *)

UuidPattern(s, i) ==
  IF i \in {9, 14, 19, 24} THEN s[i] = "-" ELSE IsHexChar(s[i])

\* /^[0-9A-F]{8}-[0-9A-F]{4}-[0-9A-F]{4}-[0-9A-F]{4}-[0-9A-F]{12}$/i
isValidUUID(uuid) ==
  Len(uuid) = 36 /\ \A i \in 1..36 : UuidPattern(uuid, i)

formatUUID(uuid) ==
  LET cleanUuid == ToUpperCase(RemoveChar(uuid, "-"))
  IN  IF Len(cleanUuid) = 32
      THEN Join(<<Substring(cleanUuid, 0, 8), Substring(cleanUuid, 8, 12),
                  Substring(cleanUuid, 12, 16), Substring(cleanUuid, 16, 20),
                  Substring(cleanUuid, 20, 32)>>, <<"-">>)
      ELSE ToUpperCase(uuid)

----------------------------------------------------------------------------
(* BleService: the iBeacon decoder *)

\* Number.prototype.toString(16) of a byte
ByteToString16(b) ==
  IF b < 16 THEN <<HexChars[b + 1]>>
  ELSE <<HexChars[(b \div 16) + 1], HexChars[(b % 16) + 1]>>

\* padStart left out: a byte below 16 gives one digit
PadStart2_None(s) == s

\* String.prototype.padStart(2, '0')
PadStart2(s) == IF Len(s) < 2 THEN <<"0">> \o s ELSE s

RECURSIVE ConcatAll(_)
ConcatAll(parts) ==
  IF Len(parts) = 0 THEN <<>> ELSE Head(parts) \o ConcatAll(Tail(parts))

bytesToUUID(bytes) ==
  LET hex == ConcatAll([i \in 1..Len(bytes) |-> PadStart2(ByteToString16(bytes[i]))])
  IN  ToUpperCase(Join(<<Substring(hex, 0, 8), Substring(hex, 8, 12),
                         Substring(hex, 12, 16), Substring(hex, 16, 20),
                         Substring(hex, 20, 32)>>, <<"-">>))

RECURSIVE BitOr(_, _)
\* a | b on naturals
BitOr(a, b) ==
  IF a = 0 THEN b
  ELSE IF b = 0 THEN a
  ELSE (IF (a % 2 = 1) \/ (b % 2 = 1) THEN 1 ELSE 0) + 2 * BitOr(a \div 2, b \div 2)

\* the shift left out: the high byte is not moved
ShiftLeft8_None(a) == a

\* a << 8; a is a byte, so the 32-bit result cannot wrap
ShiftLeft8(a) == a * 256

\* parseIBeaconData without the check of the iBeacon type bytes
parseIBeaconData_AnyType(peripheral) ==
  LET manufacturerData ==
        IF IsSome(peripheral.advertising)
        THEN Get(peripheral.advertising).manufacturerData
        ELSE None
  IN  IF ~IsSome(manufacturerData) \/ Len(Get(manufacturerData)) < 25 THEN None
      ELSE LET d == Get(manufacturerData)
           IN  IF d[1] # 76 \/ d[2] # 0 THEN None
               ELSE Some([uuid  |-> bytesToUUID(SubSeq(d, 5, 20)),
                          major |-> BitOr(ShiftLeft8(d[21]), d[22]),
                          minor |-> BitOr(ShiftLeft8(d[23]), d[24]),
                          rssi  |-> IF IsSome(peripheral.rssi) /\ Get(peripheral.rssi) # 0
                                    THEN Get(peripheral.rssi) ELSE 0])

\* A peripheral is [advertising : optional [manufacturerData : optional bytes],
\*                  rssi : optional integer].
\* parseIBeaconData returns None (null) or Some([uuid, major, minor, rssi]).
parseIBeaconData(peripheral) ==
  LET manufacturerData ==
        IF IsSome(peripheral.advertising)
        THEN Get(peripheral.advertising).manufacturerData
        ELSE None
  IN  IF ~IsSome(manufacturerData) \/ Len(Get(manufacturerData)) < 25 THEN None
      ELSE LET d == Get(manufacturerData)
           IN  IF d[1] # 76 \/ d[2] # 0 THEN None
               ELSE IF d[3] # 2 \/ d[4] # 21 THEN None
               ELSE Some([uuid  |-> bytesToUUID(SubSeq(d, 5, 20)),
                          major |-> BitOr(ShiftLeft8(d[21]), d[22]),
                          minor |-> BitOr(ShiftLeft8(d[23]), d[24]),
                          rssi  |-> IF IsSome(peripheral.rssi) /\ Get(peripheral.rssi) # 0
                                    THEN Get(peripheral.rssi) ELSE 0])

----------------------------------------------------------------------------
(* BleService: the filter of handlePeripheralDiscovered *)

PassesFilter_Strict(beaconData, settings) ==
  /\ ~(ToLowerCase(beaconData.uuid) # ToLowerCase(settings.targetUuid))
  /\ ~(beaconData.rssi <= settings.rssiThreshold)

\* the two early returns of handlePeripheralDiscovered, negated
PassesFilter(beaconData, settings) ==
  /\ ~(ToLowerCase(beaconData.uuid) # ToLowerCase(settings.targetUuid))
  /\ ~(beaconData.rssi < settings.rssiThreshold)

----------------------------------------------------------------------------
(* State *)

VARIABLES
  now,             \* Date.now(), non-decreasing
  nextRead,        \* the next unused random suffix of a BeaconRead id
  stSettings,      \* AsyncStorage 'ble_beacon_settings': optional Settings
  stSessions,      \* AsyncStorage 'ble_beacon_sessions': sequence of Session
  stCurrent,       \* AsyncStorage 'ble_beacon_current_session': optional Session
  bleIsScanning,   \* BleService.isScanning
  bleSettings,     \* BleService.settings: optional Settings
  bleCallbackSet,  \* BleService.onBeaconFound is set
  listeners,       \* number of registered 'BleManagerDiscoverPeripheral' listeners
  inflight,        \* handlePeripheralDiscovered invocations suspended at an await
  initPending,     \* ScanningScreen: the mount effect has not run yet
  isInitialized,   \* ScanningScreen.isInitialized
  bluetoothState,  \* ScanningScreen.bluetoothState
  isScanning,      \* ScanningScreen.isScanning
  currentSession,  \* ScanningScreen.currentSession: optional Session
  beaconReads,     \* ScanningScreen.beaconReads
  settingsOpen,    \* the Settings screen is mounted on top of the stack
  formSettings,    \* SettingsScreen.settings
  outcome,         \* the Alert the step just taken raised ("cleared" for the
                   \* discard that completed, which raises none), else "none"
  pfIn,            \* input of a pure function under check
  pfOut            \* its result

storageVars == <<stSettings, stSessions, stCurrent>>
bleVars == <<bleIsScanning, bleSettings, bleCallbackSet, listeners, inflight>>
scanVars == <<initPending, isInitialized, bluetoothState, isScanning,
              currentSession, beaconReads>>
formVars == <<settingsOpen, formSettings>>
pfVars == <<pfIn, pfOut>>
vars == <<now, nextRead, stSettings, stSessions, stCurrent, bleIsScanning,
          bleSettings, bleCallbackSet, listeners, inflight, initPending,
          isInitialized, bluetoothState, isScanning, currentSession,
          beaconReads, settingsOpen, formSettings, outcome,
          pfIn, pfOut>>

----------------------------------------------------------------------------
(* Inputs *)

\* 'E101B392ADA32224231605EF58774925', the default of getSettings and of the form
DefaultTargetUuid ==
  <<"E","1","0","1","B","3","9","2","A","D","A","3","2","2","2","4",
    "2","3","1","6","0","5","E","F","5","8","7","7","4","9","2","5">>

DefaultSettings == [targetUuid |-> DefaultTargetUuid, rssiThreshold |-> 0 - 70]

\* an iBeacon frame: 4C 00 02 15, sixteen UUID bytes, major, minor, tx power
Frame(uuidBytes, majorHi, majorLo, minorHi, minorLo, tx) ==
  <<76, 0, 2, 21>> \o uuidBytes \o <<majorHi, majorLo, minorHi, minorLo, tx>>

\* E1 01 B3 92 AD A3 22 24 23 16 05 EF 58 77 49 25
FixtureUuidBytes ==
  <<225, 1, 179, 146, 173, 163, 34, 36, 35, 22, 5, 239, 88, 119, 73, 37>>
OtherUuidBytes ==
  <<0, 17, 34, 51, 68, 85, 102, 119, 136, 153, 170, 187, 204, 221, 238, 255>>

Peripheral(frame, rssi) ==
  [advertising |-> Some([manufacturerData |-> Some(frame)]), rssi |-> Some(rssi)]

\* the discovery events the scan source delivers
Peripherals ==
  { Peripheral(Frame(FixtureUuidBytes, 0, 1, 1, 0, 197), 0 - 70),
    Peripheral(Frame(FixtureUuidBytes, 0, 1, 1, 0, 197), 0 - 71),
    Peripheral(Frame(OtherUuidBytes, 0, 1, 1, 0, 197), 0 - 70),
    Peripheral(SubSeq(Frame(FixtureUuidBytes, 0, 1, 1, 0, 197), 1, 24), 0 - 50),
    Peripheral([Frame(FixtureUuidBytes, 0, 1, 1, 0, 197) EXCEPT ![1] = 77], 0 - 50),
    [advertising |-> Some([manufacturerData |-> None]), rssi |-> Some(0 - 50)],
    [advertising |-> None, rssi |-> Some(0 - 50)] }

\* texts typed into the session-name field
NameTexts == { <<>>, <<" ", " ">>, <<" ", "x", " ">> }

\* texts typed into the Target UUID field
UuidTexts ==
  { <<"e","1","0","1","b","3","9","2","a","d","a","3","2","2","2","4",
      "2","3","1","6","0","5","e","f","5","8","7","7","4","9","2","5">>,
    <<"e","1","0","1">> }

\* texts typed into the RSSI Threshold field
RssiTexts == { <<"-","7","1">>, <<"-","1","0","1">>, <<"-">> }

----------------------------------------------------------------------------
(* StorageService *)

\* getSettings: the stored settings, the defaults when none are stored or
\* when AsyncStorage.getItem fails (io = FALSE)
getSettings(io) ==
  IF io /\ IsSome(stSettings) THEN Get(stSettings) ELSE DefaultSettings

\* getSessions: [] when nothing is stored or when getItem fails
getSessions(io) == IF io THEN stSessions ELSE <<>>

\* getCurrentSession: null when nothing is stored or when getItem fails
getCurrentSession(io) == IF io THEN stCurrent ELSE None

findIndex(sessions, id) ==
  IF \E i \in 1..Len(sessions) : sessions[i].id = id
  THEN CHOOSE i \in 1..Len(sessions) :
         /\ sessions[i].id = id
         /\ \A j \in 1..(i - 1) : sessions[j].id # id
  ELSE 0

\* the array saveSession writes back: replace at existingIndex, or push
upsertSession(sessions, session) ==
  LET existingIndex == findIndex(sessions, session.id)
  IN  IF existingIndex > 0
      THEN [sessions EXCEPT ![existingIndex] = session]
      ELSE Append(sessions, session)

\* the session addBeaconReadToCurrentSession writes back
pushRead(session, beaconRead) ==
  [session EXCEPT !.beaconReads = Append(@, beaconRead)]

----------------------------------------------------------------------------
(* Initial states *)

\* the process has just started, with `stored` as the stored settings
Boot(stored) ==
  /\ now = 0
  /\ nextRead = 1
  /\ stSettings = stored
  /\ stSessions = <<>>
  /\ stCurrent = None
  /\ bleIsScanning = FALSE
  /\ bleSettings = None
  /\ bleCallbackSet = FALSE
  /\ listeners = 0
  /\ inflight = {}
  /\ initPending = TRUE
  /\ isInitialized = FALSE
  /\ bluetoothState = "unknown"
  /\ isScanning = FALSE
  /\ currentSession = None
  /\ beaconReads = <<>>
  /\ settingsOpen = FALSE
  /\ formSettings = DefaultSettings
  /\ outcome = "none"

\* a fresh install
Init ==
  /\ Boot(None)
  /\ pfIn = None
  /\ pfOut = None

----------------------------------------------------------------------------
(* The environment *)

\* time passes
Tick ==
  /\ now < MaxTime
  /\ now' = now + 1
  /\ outcome' = "none"
  /\ UNCHANGED <<nextRead, storageVars, bleVars, scanVars, formVars, pfVars>>

\* the process is killed and started again: memory is lost, AsyncStorage is kept
Restart ==
  /\ ~initPending
  /\ bleIsScanning' = FALSE
  /\ bleSettings' = None
  /\ bleCallbackSet' = FALSE
  /\ listeners' = 0
  /\ inflight' = {}
  /\ initPending' = TRUE
  /\ isInitialized' = FALSE
  /\ bluetoothState' = "unknown"
  /\ isScanning' = FALSE
  /\ currentSession' = None
  /\ beaconReads' = <<>>
  /\ settingsOpen' = FALSE
  /\ formSettings' = DefaultSettings
  /\ outcome' = "none"
  /\ UNCHANGED <<now, nextRead, storageVars, pfVars>>

----------------------------------------------------------------------------
(* ScanningScreen *)

\* initializeApp, run by the mount effect.  env is what the platform answers:
\* "denied" (BLE start fails or a permission is refused), "off" (Bluetooth is
\* not on) or "on"; io is whether AsyncStorage.getItem succeeds.
initializeApp(env, io) ==
  /\ initPending
  /\ initPending' = FALSE
  /\ IF env = "denied"
     THEN /\ outcome' = "init_failed"
          /\ UNCHANGED <<bluetoothState, bleCallbackSet, currentSession,
                         beaconReads, isInitialized>>
     ELSE IF env = "off"
     THEN /\ bluetoothState' = "off"
          /\ outcome' = "bluetooth_required"
          /\ UNCHANGED <<bleCallbackSet, currentSession, beaconReads, isInitialized>>
     ELSE /\ bluetoothState' = "on"
          /\ bleCallbackSet' = TRUE
          /\ LET session == getCurrentSession(io)
             IN  IF IsSome(session)
                 THEN /\ currentSession' = session
                      /\ beaconReads' = Get(session).beaconReads
                 ELSE UNCHANGED <<currentSession, beaconReads>>
          /\ isInitialized' = TRUE
          /\ outcome' = "none"
  /\ UNCHANGED <<now, nextRead, storageVars, bleIsScanning, bleSettings, listeners,
                 inflight, isScanning, formVars, pfVars>>

\* a new session that already carries an end time
newSession_Ended ==
  [id          |-> <<"session_", now>>,
   name        |-> <<"S","e","s","s","i","o","n"," ">> \o NatToString(now),
   startTime   |-> now,
   endTime     |-> Some(now),
   beaconReads |-> <<>>]

\* `session_${Date.now()}` and `Session ${new Date().toLocaleString()}`
newSession ==
  [id          |-> <<"session_", now>>,
   name        |-> <<"S","e","s","s","i","o","n"," ">> \o NatToString(now),
   startTime   |-> now,
   endTime     |-> None,
   beaconReads |-> <<>>]

\* startScanning creating a session whether or not one is active
startScanning_Fresh(ioCur, ioGet, ioScan) ==
  /\ isInitialized /\ ~settingsOpen
  /\ IF bluetoothState # "on"
     THEN /\ outcome' = "bluetooth_required"
          /\ UNCHANGED <<currentSession, stCurrent, bleSettings, bleIsScanning,
                         listeners, isScanning>>
     ELSE
       /\ currentSession' = Some(newSession)
       /\ IF ~ioCur
          THEN /\ outcome' = "start_failed"
               /\ UNCHANGED <<stCurrent, bleSettings, bleIsScanning, listeners, isScanning>>
          ELSE
            /\ stCurrent' = Some(newSession)
            /\ IF bleIsScanning
               THEN /\ isScanning' = TRUE
                    /\ outcome' = "none"
                    /\ UNCHANGED <<bleSettings, bleIsScanning, listeners>>
               ELSE
                 /\ bleSettings' = Some(getSettings(ioGet))
                 /\ IF ioScan
                    THEN /\ bleIsScanning' = TRUE
                         /\ listeners' = listeners + 1
                         /\ isScanning' = TRUE
                         /\ outcome' = "none"
                    ELSE /\ outcome' = "start_failed"
                         /\ UNCHANGED <<bleIsScanning, listeners, isScanning>>
  /\ listeners' <= MaxListeners
  /\ UNCHANGED <<now, nextRead, stSettings, stSessions, bleCallbackSet, inflight,
                 initPending, isInitialized, bluetoothState, beaconReads,
                 formVars, pfVars>>

\* startScanning of the screen, with BleService.startScanning inlined.
\* ioCur: saveCurrentSession succeeds; ioGet: getItem of the settings succeeds;
\* ioScan: BleManager.scan succeeds.
startScanning(ioCur, ioGet, ioScan) ==
  /\ isInitialized /\ ~settingsOpen
  /\ IF bluetoothState # "on"
     THEN /\ outcome' = "bluetooth_required"
          /\ UNCHANGED <<currentSession, stCurrent, bleSettings, bleIsScanning,
                         listeners, isScanning>>
     ELSE
       /\ currentSession' = IF IsSome(currentSession) THEN currentSession
                            ELSE Some(newSession)
       /\ IF ~IsSome(currentSession) /\ ~ioCur
          THEN \* saveCurrentSession throws
               /\ outcome' = "start_failed"
               /\ UNCHANGED <<stCurrent, bleSettings, bleIsScanning, listeners, isScanning>>
          ELSE
            /\ stCurrent' = IF IsSome(currentSession) THEN stCurrent ELSE Some(newSession)
            /\ IF bleIsScanning
               THEN \* 'Already scanning'
                    /\ isScanning' = TRUE
                    /\ outcome' = "none"
                    /\ UNCHANGED <<bleSettings, bleIsScanning, listeners>>
               ELSE
                 /\ bleSettings' = Some(getSettings(ioGet))
                 /\ IF ioScan
                    THEN /\ bleIsScanning' = TRUE
                         /\ listeners' = listeners + 1
                         /\ isScanning' = TRUE
                         /\ outcome' = "none"
                    ELSE /\ outcome' = "start_failed"
                         /\ UNCHANGED <<bleIsScanning, listeners, isScanning>>
  /\ listeners' <= MaxListeners
  /\ UNCHANGED <<now, nextRead, stSettings, stSessions, bleCallbackSet, inflight,
                 initPending, isInitialized, bluetoothState, beaconReads,
                 formVars, pfVars>>

\* stopScanning closing the session in progress
stopScanning_Flush(ioStop) ==
  /\ isInitialized /\ ~settingsOpen
  /\ IF ~bleIsScanning
     THEN /\ isScanning' = FALSE
          /\ outcome' = "none"
          /\ UNCHANGED <<bleIsScanning, stCurrent, currentSession, beaconReads>>
     ELSE IF ioStop
     THEN /\ bleIsScanning' = FALSE
          /\ isScanning' = FALSE
          /\ stCurrent' = None
          /\ currentSession' = None
          /\ beaconReads' = <<>>
          /\ outcome' = "none"
     ELSE /\ outcome' = "stop_failed"
          /\ UNCHANGED <<bleIsScanning, isScanning, stCurrent, currentSession, beaconReads>>
  /\ UNCHANGED <<now, nextRead, stSettings, stSessions, bleSettings, bleCallbackSet,
                 listeners, inflight, initPending, isInitialized, bluetoothState,
                 formVars, pfVars>>

\* stopScanning of the screen, with BleService.stopScanning inlined.
\* ioStop: BleManager.stopScan succeeds.
stopScanning(ioStop) ==
  /\ isInitialized /\ ~settingsOpen
  /\ IF ~bleIsScanning
     THEN \* 'Not currently scanning'
          /\ isScanning' = FALSE
          /\ outcome' = "none"
          /\ UNCHANGED bleIsScanning
     ELSE IF ioStop
     THEN /\ bleIsScanning' = FALSE
          /\ isScanning' = FALSE
          /\ outcome' = "none"
     ELSE /\ outcome' = "stop_failed"
          /\ UNCHANGED <<bleIsScanning, isScanning>>
  /\ UNCHANGED <<now, nextRead, storageVars, bleSettings, bleCallbackSet, listeners,
                 inflight, initPending, isInitialized, bluetoothState,
                 currentSession, beaconReads, formVars, pfVars>>

\* saveSession reporting success although the current session was not removed
saveSession_EarlyAck(sessionName, ioGet, ioSet, ioCur) ==
  /\ isInitialized /\ ~settingsOpen
  /\ IF Trim(sessionName) = <<>>
     THEN /\ outcome' = "name_required"
          /\ UNCHANGED <<stSessions, stCurrent, currentSession, beaconReads>>
     ELSE IF ~IsSome(currentSession)
     THEN /\ outcome' = "no_session"
          /\ UNCHANGED <<stSessions, stCurrent, currentSession, beaconReads>>
     ELSE
       LET sessionToSave == [Get(currentSession) EXCEPT
                               !.name = Trim(sessionName), !.endTime = Some(now)]
       IN  IF ~ioSet
           THEN /\ outcome' = "save_failed"
                /\ UNCHANGED <<stSessions, stCurrent, currentSession, beaconReads>>
           ELSE /\ stSessions' = upsertSession(getSessions(ioGet), sessionToSave)
                /\ stCurrent' = IF ioCur THEN None ELSE stCurrent
                /\ currentSession' = None
                /\ beaconReads' = <<>>
                /\ outcome' = "saved"
  /\ UNCHANGED <<now, nextRead, stSettings, bleVars, initPending, isInitialized,
                 bluetoothState, isScanning, formVars, pfVars>>

\* saveSession with the name compared untrimmed
saveSession_NoTrim(sessionName, ioGet, ioSet, ioCur) ==
  /\ isInitialized /\ ~settingsOpen
  /\ IF sessionName = <<>>
     THEN /\ outcome' = "name_required"
          /\ UNCHANGED <<stSessions, stCurrent, currentSession, beaconReads>>
     ELSE IF ~IsSome(currentSession)
     THEN /\ outcome' = "no_session"
          /\ UNCHANGED <<stSessions, stCurrent, currentSession, beaconReads>>
     ELSE
       LET sessionToSave == [Get(currentSession) EXCEPT
                               !.name = Trim(sessionName), !.endTime = Some(now)]
       IN  IF ~ioSet
           THEN /\ outcome' = "save_failed"
                /\ UNCHANGED <<stSessions, stCurrent, currentSession, beaconReads>>
           ELSE /\ stSessions' = upsertSession(getSessions(ioGet), sessionToSave)
                /\ IF ~ioCur
                   THEN /\ outcome' = "save_failed"
                        /\ UNCHANGED <<stCurrent, currentSession, beaconReads>>
                   ELSE /\ stCurrent' = None
                        /\ currentSession' = None
                        /\ beaconReads' = <<>>
                        /\ outcome' = "saved"
  /\ UNCHANGED <<now, nextRead, stSettings, bleVars, initPending, isInitialized,
                 bluetoothState, isScanning, formVars, pfVars>>

\* saveSession of the screen.  sessionName is the text of the name field;
\* ioGet: getItem of the saved sessions succeeds; ioSet: setItem of the saved
\* sessions succeeds; ioCur: removeItem of the current session succeeds.
saveSession(sessionName, ioGet, ioSet, ioCur) ==
  /\ isInitialized /\ ~settingsOpen
  /\ IF Trim(sessionName) = <<>>
     THEN /\ outcome' = "name_required"
          /\ UNCHANGED <<stSessions, stCurrent, currentSession, beaconReads>>
     ELSE IF ~IsSome(currentSession)
     THEN /\ outcome' = "no_session"
          /\ UNCHANGED <<stSessions, stCurrent, currentSession, beaconReads>>
     ELSE
       LET sessionToSave == [Get(currentSession) EXCEPT
                               !.name = Trim(sessionName), !.endTime = Some(now)]
       IN  IF ~ioSet
           THEN /\ outcome' = "save_failed"
                /\ UNCHANGED <<stSessions, stCurrent, currentSession, beaconReads>>
           ELSE /\ stSessions' = upsertSession(getSessions(ioGet), sessionToSave)
                /\ IF ~ioCur
                   THEN /\ outcome' = "save_failed"
                        /\ UNCHANGED <<stCurrent, currentSession, beaconReads>>
                   ELSE /\ stCurrent' = None
                        /\ currentSession' = None
                        /\ beaconReads' = <<>>
                        /\ outcome' = "saved"
  /\ UNCHANGED <<now, nextRead, stSettings, bleVars, initPending, isInitialized,
                 bluetoothState, isScanning, formVars, pfVars>>

\* clearCurrentSession moving the current session to the saved collection
\* instead of removing it
clearCurrentSession_Archive(ioCur) ==
  /\ isInitialized /\ ~settingsOpen
  /\ IF ioCur
     THEN /\ stSessions' = IF IsSome(stCurrent)
                           THEN upsertSession(stSessions, Get(stCurrent))
                           ELSE stSessions
          /\ stCurrent' = None
          /\ currentSession' = None
          /\ beaconReads' = <<>>
          /\ outcome' = "cleared"
     ELSE /\ outcome' = "clear_failed"
          /\ UNCHANGED <<stSessions, stCurrent, currentSession, beaconReads>>
  /\ UNCHANGED <<now, nextRead, stSettings, bleVars, initPending,
                 isInitialized, bluetoothState, isScanning, formVars, pfVars>>

\* the 'Clear' button of the dialog clearCurrentSession shows.
\* ioCur: removeItem of the current session succeeds.
clearCurrentSession(ioCur) ==
  /\ isInitialized /\ ~settingsOpen
  /\ IF ioCur
     THEN /\ stCurrent' = None
          /\ currentSession' = None
          /\ beaconReads' = <<>>
          /\ outcome' = "cleared"
     ELSE /\ outcome' = "clear_failed"
          /\ UNCHANGED <<stCurrent, currentSession, beaconReads>>
  /\ UNCHANGED <<now, nextRead, stSettings, stSessions, bleVars, initPending,
                 isInitialized, bluetoothState, isScanning, formVars, pfVars>>

----------------------------------------------------------------------------
(* BleService.handlePeripheralDiscovered *)

\* a BeaconRead that does not take the signal strength of the advertisement
newBeaconRead_NoRssi(beaconData, k) ==
  [id        |-> <<now, k>>,
   uuid      |-> beaconData.uuid,
   major     |-> beaconData.major,
   minor     |-> beaconData.minor,
   rssi      |-> 0,
   timestamp |-> now]

\* the BeaconRead one invocation creates; k is its random suffix
newBeaconRead(beaconData, k) ==
  [id        |-> <<now, k>>,
   uuid      |-> beaconData.uuid,
   major     |-> beaconData.major,
   minor     |-> beaconData.minor,
   rssi      |-> beaconData.rssi,
   timestamp |-> now]

\* whether one invocation gets past its early returns and creates a read
accepts(peripheral) ==
  /\ IsSome(bleSettings) /\ bleCallbackSet
  /\ IsSome(parseIBeaconData(peripheral))
  /\ PassesFilter(Get(parseIBeaconData(peripheral)), Get(bleSettings))

\* the invocations one discovery event starts: one per registered listener
invocations(peripheral) ==
  { [read    |-> newBeaconRead(Get(parseIBeaconData(peripheral)), nextRead + k - 1),
     pc      |-> "load",
     session |-> None] : k \in 1..listeners }

\* a handler that ends the scan on an event it cannot decode
discoverPeripheral_Fatal(peripheral) ==
  /\ bleIsScanning /\ listeners >= 1
  /\ IF accepts(peripheral)
     THEN /\ nextRead + Cardinality(invocations(peripheral)) - 1 <= MaxReads
          /\ inflight' = inflight \cup invocations(peripheral)
          /\ nextRead' = nextRead + Cardinality(invocations(peripheral))
     ELSE UNCHANGED <<inflight, nextRead>>
  /\ bleIsScanning' = IsSome(parseIBeaconData(peripheral))
  /\ outcome' = "none"
  /\ UNCHANGED <<now, storageVars, bleSettings, bleCallbackSet,
                 listeners, scanVars, formVars, pfVars>>

\* The scan source delivers one discovery event.  Every registered listener
\* runs handlePeripheralDiscovered up to its first await, the getItem of
\* addBeaconReadToCurrentSession.
discoverPeripheral(peripheral) ==
  /\ bleIsScanning /\ listeners >= 1
  /\ IF accepts(peripheral)
     THEN /\ nextRead + Cardinality(invocations(peripheral)) - 1 <= MaxReads
          /\ inflight' = inflight \cup invocations(peripheral)
          /\ nextRead' = nextRead + Cardinality(invocations(peripheral))
     ELSE UNCHANGED <<inflight, nextRead>>
  /\ outcome' = "none"
  /\ UNCHANGED <<now, storageVars, bleIsScanning, bleSettings, bleCallbackSet,
                 listeners, scanVars, formVars, pfVars>>

\* getCurrentSession resolves for the invocation h.  With a current session
\* the read is pushed and setItem is issued; with none (or when getItem
\* fails, io = FALSE) nothing is written and the callback is notified.
handlerLoad(h, io) ==
  /\ h \in inflight /\ h.pc = "load"
  /\ LET loaded == getCurrentSession(io)
     IN  IF IsSome(loaded)
         THEN /\ inflight' = (inflight \ {h}) \cup
                     { [h EXCEPT !.pc = "store",
                                 !.session = Some(pushRead(Get(loaded), h.read))] }
              /\ UNCHANGED beaconReads
         ELSE /\ inflight' = inflight \ {h}
              /\ beaconReads' = <<h.read>> \o beaconReads
  /\ outcome' = "none"
  /\ UNCHANGED <<now, nextRead, storageVars, bleIsScanning, bleSettings,
                 bleCallbackSet, listeners, initPending, isInitialized,
                 bluetoothState, isScanning, currentSession, formVars, pfVars>>

\* setItem of saveCurrentSession resolves for the invocation h: the session it
\* loaded, with its read pushed, becomes the current session and the callback
\* is notified; when setItem fails (io = FALSE) the error is logged.
handlerStore(h, io) ==
  /\ h \in inflight /\ h.pc = "store"
  /\ inflight' = inflight \ {h}
  /\ IF io
     THEN /\ stCurrent' = h.session
          /\ beaconReads' = <<h.read>> \o beaconReads
          /\ outcome' = "none"
     ELSE /\ outcome' = "none"
          /\ UNCHANGED <<stCurrent, beaconReads>>
  /\ UNCHANGED <<now, nextRead, stSettings, stSessions, bleIsScanning, bleSettings,
                 bleCallbackSet, listeners, initPending, isInitialized,
                 bluetoothState, isScanning, currentSession, formVars, pfVars>>

----------------------------------------------------------------------------
(* SettingsScreen *)

\* navigation.navigate('Settings'): the screen mounts and loadSettings runs
openSettings(io) ==
  /\ isInitialized /\ ~settingsOpen
  /\ settingsOpen' = TRUE
  /\ formSettings' = getSettings(io)
  /\ outcome' = "none"
  /\ UNCHANGED <<now, nextRead, storageVars, bleVars, scanVars, pfVars>>

\* navigation.goBack(): the screen unmounts
closeSettings ==
  /\ settingsOpen
  /\ settingsOpen' = FALSE
  /\ formSettings' = DefaultSettings
  /\ outcome' = "none"
  /\ UNCHANGED <<now, nextRead, storageVars, bleVars, scanVars, pfVars>>

\* onChangeText of the Target UUID field
changeTargetUuid(text) ==
  /\ settingsOpen
  /\ formSettings' = [formSettings EXCEPT !.targetUuid = formatUUID(text)]
  /\ outcome' = "none"
  /\ UNCHANGED <<now, nextRead, storageVars, bleVars, scanVars, settingsOpen,
                 pfVars>>

\* onChangeText of the RSSI Threshold field
changeRssiThreshold(text) ==
  /\ settingsOpen
  /\ formSettings' = IF IsSome(ParseInt(text))
                     THEN [formSettings EXCEPT !.rssiThreshold = Get(ParseInt(text))]
                     ELSE formSettings
  /\ outcome' = "none"
  /\ UNCHANGED <<now, nextRead, storageVars, bleVars, scanVars, settingsOpen,
                 pfVars>>

\* saveSettings handing the saved settings to the scanner as well
saveSettings_Apply(io) ==
  /\ settingsOpen
  /\ IF ~isValidUUID(formSettings.targetUuid)
     THEN /\ outcome' = "invalid_uuid"
          /\ UNCHANGED <<stSettings, bleSettings>>
     ELSE IF formSettings.rssiThreshold < 0 - 100 \/ formSettings.rssiThreshold > 0
     THEN /\ outcome' = "invalid_rssi"
          /\ UNCHANGED <<stSettings, bleSettings>>
     ELSE IF io
     THEN /\ stSettings' = Some(formSettings)
          /\ bleSettings' = Some(formSettings)
          /\ outcome' = "settings_saved"
     ELSE /\ outcome' = "settings_failed"
          /\ UNCHANGED <<stSettings, bleSettings>>
  /\ UNCHANGED <<now, nextRead, stSessions, stCurrent, bleIsScanning, bleCallbackSet,
                 listeners, inflight, scanVars, formVars, pfVars>>

\* saveSettings of the screen.  io: setItem of the settings succeeds.
saveSettings(io) ==
  /\ settingsOpen
  /\ IF ~isValidUUID(formSettings.targetUuid)
     THEN /\ outcome' = "invalid_uuid"
          /\ UNCHANGED stSettings
     ELSE IF formSettings.rssiThreshold < 0 - 100 \/ formSettings.rssiThreshold > 0
     THEN /\ outcome' = "invalid_rssi"
          /\ UNCHANGED stSettings
     ELSE IF io
     THEN /\ stSettings' = Some(formSettings)
          /\ outcome' = "settings_saved"
     ELSE /\ outcome' = "settings_failed"
          /\ UNCHANGED stSettings
  /\ UNCHANGED <<now, nextRead, stSessions, stCurrent, bleVars, scanVars,
                 formVars, pfVars>>

\* the 'Reset' button of the dialog resetToDefaults shows
resetToDefaults ==
  /\ settingsOpen
  /\ formSettings' = DefaultSettings
  /\ outcome' = "none"
  /\ UNCHANGED <<now, nextRead, storageVars, bleVars, scanVars, settingsOpen,
                 pfVars>>

----------------------------------------------------------------------------
(* The program *)

\* the scanning screen, the discovery handlers and process restarts; IO is
\* the set of results an AsyncStorage or BleManager call may have
Recorder(IO) ==
  \/ Restart
  \/ \E env \in {"denied", "off", "on"}, io \in IO : initializeApp(env, io)
  \/ \E ioCur \in IO, ioGet \in IO, ioScan \in IO :
       startScanning(ioCur, ioGet, ioScan)
  \/ \E ioStop \in IO : stopScanning(ioStop)
  \/ \E text \in NameTexts, ioGet \in IO, ioSet \in IO, ioCur \in IO :
       saveSession(text, ioGet, ioSet, ioCur)
  \/ \E ioCur \in IO : clearCurrentSession(ioCur)
  \/ \E peripheral \in Peripherals : discoverPeripheral(peripheral)
  \/ \E h \in inflight, io \in IO : handlerLoad(h, io)
  \/ \E h \in inflight, io \in IO : handlerStore(h, io)

\* the settings screen
Settings ==
  \/ \E io \in BOOLEAN : openSettings(io)
  \/ closeSettings
  \/ \E text \in UuidTexts : changeTargetUuid(text)
  \/ \E text \in RssiTexts : changeRssiThreshold(text)
  \/ \E io \in BOOLEAN : saveSettings(io)
  \/ resetToDefaults

Next == Tick \/ Recorder(BOOLEAN) \/ Settings

\* the whole program, from a fresh install
Spec == Init /\ [][Next]_vars

----------------------------------------------------------------------------
(* The criteria: the settings screen and the scan start that loads them *)

NextSettings ==
  \/ Settings
  \/ \E io \in BOOLEAN : initializeApp("on", io)
  \/ \E ioCur \in BOOLEAN, ioGet \in BOOLEAN, ioScan \in BOOLEAN :
       startScanning(ioCur, ioGet, ioScan)
  \/ \E ioStop \in BOOLEAN : stopScanning(ioStop)

SpecSettings == Init /\ [][NextSettings]_vars

----------------------------------------------------------------------------
(* The recorder, once the operator has saved the fixture UUID as target *)

\* what saveSettings stores after the fixture UUID is typed into the form
ConfiguredSettings ==
  [targetUuid    |-> formatUUID(ToLowerCase(DefaultTargetUuid)),
   rssiThreshold |-> 0 - 70]

InitConfigured ==
  /\ Boot(Some(ConfiguredSettings))
  /\ pfIn = None
  /\ pfOut = None

\* every handler of the scanning screen, every outcome of every I/O call,
\* within one reading of the clock
SpecRecorder == InitConfigured /\ [][Recorder(BOOLEAN)]_vars

\* the same handlers when no I/O call fails
SpecNoFault == InitConfigured /\ [][Recorder({TRUE})]_vars

\* one session is started and discovery events are recorded into it while the
\* scan is stopped and started again: no I/O call fails, nothing is saved or
\* discarded, the process keeps running
NextRecord ==
  \/ Tick
  \/ initializeApp("on", TRUE)
  \/ startScanning(TRUE, TRUE, TRUE)
  \/ stopScanning(TRUE)
  \/ \E peripheral \in Peripherals : discoverPeripheral(peripheral)
  \/ \E h \in inflight : handlerLoad(h, TRUE)
  \/ \E h \in inflight : handlerStore(h, TRUE)

SpecRecord == InitConfigured /\ [][NextRecord]_vars

----------------------------------------------------------------------------
(* The filter as a function of its two inputs *)

FilterUuids == { bytesToUUID(FixtureUuidBytes), bytesToUUID(OtherUuidBytes) }
FilterRssis == { 0 - 100, 0 - 71, 0 - 70, 0 - 69, 0 }
FilterTargets ==
  { bytesToUUID(FixtureUuidBytes),
    ToLowerCase(bytesToUUID(FixtureUuidBytes)),
    [bytesToUUID(FixtureUuidBytes) EXCEPT ![1] = "e"],
    [bytesToUUID(FixtureUuidBytes) EXCEPT ![36] = "6"],
    DefaultTargetUuid }
FilterThresholds == { 0 - 100, 0 - 70, 0 }

InitFilter ==
  /\ Boot(None)
  /\ pfIn \in { [beaconData |-> [uuid |-> u, major |-> 1, minor |-> 256, rssi |-> r],
                 settings   |-> [targetUuid |-> t, rssiThreshold |-> th]] :
                u \in FilterUuids, r \in FilterRssis,
                t \in FilterTargets, th \in FilterThresholds }
  /\ pfOut = None

\* the filter is applied to the input
applyFilter ==
  /\ pfOut = None
  /\ pfOut' = Some(PassesFilter(pfIn.beaconData, pfIn.settings))
  /\ UNCHANGED <<now, nextRead, storageVars, bleVars, scanVars, formVars, outcome, pfIn>>

SpecFilter == InitFilter /\ [][applyFilter]_vars

----------------------------------------------------------------------------
(* Properties *)

\* the random suffixes of a list of reads, in list order
ReadNumbers(reads) == [i \in 1..Len(reads) |-> reads[i].id[2]]

\* C1: once every record call started by the accepted discovery events has
\* completed, the persisted current session holds all the reads created so
\* far, each once, in arrival order: none is lost or reordered by the
\* interleaved load, append and store steps.
C1_AllReadsKeptInOrder ==
  (inflight = {} /\ IsSome(stCurrent)) =>
    ReadNumbers(Get(stCurrent).beaconReads) = [i \in 1..(nextRead - 1) |-> i]

\* C2: a save that succeeds on an empty saved collection leaves exactly one
\* saved session, holding the reads recorded into the persisted current
\* session, named by the trimmed text of the name field, with endTime set and
\* not before startTime, and leaves no persisted current session.
C2_SaveKeepsRecordedReads ==
  [][(outcome' = "saved" /\ stSessions = <<>> /\ IsSome(stCurrent)) =>
       /\ Len(stSessions') = 1
       /\ stSessions'[1].beaconReads = Get(stCurrent).beaconReads
       /\ stSessions'[1].name = <<"x">>
       /\ IsSome(stSessions'[1].endTime)
       /\ Get(stSessions'[1].endTime) >= stSessions'[1].startTime
       /\ stCurrent' = None]_vars

\* C3: whatever startScanning and stopScanning calls came before, one
\* discovery event creates at most one BeaconRead.
C3_OneReadPerEvent == [][nextRead' <= nextRead + 1]_vars

\* 'E101B392-ADA3-2224-2316-05EF58774925'
HyphenatedDefaultUuid ==
  <<"E","1","0","1","B","3","9","2","-","A","D","A","3","-","2","2","2","4","-",
    "2","3","1","6","-","0","5","E","F","5","8","7","7","4","9","2","5">>

\* C4: getSettings returns the target UUID
\* E101B392-ADA3-2224-2316-05EF58774925 and the threshold -70 when the read
\* fails and when no settings are stored.
C4_DefaultCriteria ==
  /\ getSettings(FALSE) =
       [targetUuid |-> HyphenatedDefaultUuid, rssiThreshold |-> 0 - 70]
  /\ ~IsSome(stSettings) =>
       getSettings(TRUE) =
         [targetUuid |-> HyphenatedDefaultUuid, rssiThreshold |-> 0 - 70]

\* 8-4-4-4-12 groups of hexadecimal digits
CanonicalUuid(s) ==
  /\ Len(s) = 36
  /\ \A i \in 1..36 :
       IF i \in {9, 14, 19, 24}
       THEN s[i] = "-"
       ELSE s[i] \in {"0","1","2","3","4","5","6","7","8","9",
                      "a","b","c","d","e","f","A","B","C","D","E","F"}

\* C5: the criteria the scanner holds always have a target UUID in the
\* canonical 8-4-4-4-12 form and a threshold within [-100, 0].
C5_ScannerCriteriaValid ==
  IsSome(bleSettings) =>
    /\ CanonicalUuid(Get(bleSettings).targetUuid)
    /\ Get(bleSettings).rssiThreshold >= 0 - 100
    /\ Get(bleSettings).rssiThreshold <= 0

\* equality of two strings up to the case of their letters
SameIgnoringCase(a, b) ==
  /\ Len(a) = Len(b)
  /\ \A i \in 1..Len(a) : UpperChar(a[i]) = UpperChar(b[i])

C7_DiscardLeavesNothing ==
  [][outcome' = "cleared" =>
       /\ stCurrent' = None
       /\ stSessions' = stSessions]_vars

\* a discard has completed after every read created was recorded, and nothing
\* is persisted
C7_Witness ==
  /\ outcome = "cleared"
  /\ nextRead > 1 /\ inflight = {}
  /\ isInitialized /\ Len(beaconReads) = 0
  /\ stCurrent = None /\ stSessions = <<>>

\* a name that is empty or holds only white space
IsBlank(text) == \A i \in 1..Len(text) : text[i] = " "

\* C8: a save called with no active session, or with an empty or
\* whitespace-only name, raises the error Alert of its precondition and leaves
\* the saved collection, the persisted current session and the in-memory
\* session and reads as they were.
C8_SavePreconditions ==
  [][\A text \in NameTexts, ioGet \in BOOLEAN, ioSet \in BOOLEAN, ioCur \in BOOLEAN :
       (saveSession(text, ioGet, ioSet, ioCur)
          /\ (IsBlank(text) \/ ~IsSome(currentSession))) =>
         /\ outcome' \in {"name_required", "no_session"}
         /\ UNCHANGED <<stSessions, stCurrent, currentSession, beaconReads>>]_vars

\* a save with a name was refused for want of a session while a session was
\* persisted
C8_Witness ==
  /\ outcome = "no_session"
  /\ ~IsSome(currentSession)
  /\ IsSome(stCurrent)

\* C9: a discard called with no active session does not complete as if there
\* were one: it is refused with an error.
C9_DiscardWhileIdleRefused ==
  [][~(~IsSome(currentSession) /\ ~IsSome(stCurrent) /\ outcome' = "cleared")]_vars

\* C10: when the persistence call made by start, save or discard fails, the
\* in-memory session and the in-memory reads are what they were before.
C10_FailedPersistKeepsMemory ==
  [][(\/ /\ ~IsSome(currentSession)
         /\ \E ioGet \in BOOLEAN, ioScan \in BOOLEAN :
              startScanning(FALSE, ioGet, ioScan)
      \/ outcome' = "save_failed"
      \/ outcome' = "clear_failed") =>
       UNCHANGED <<currentSession, beaconReads>>]_vars

\* the reads of a list, as a set
ReadSet(reads) == { reads[i] : i \in 1..Len(reads) }

\* C11: whenever the screen is initialized and no record call is in flight,
\* the in-memory read list holds exactly the reads of the persisted current
\* session, and no read at all when no current session is persisted.
C11_MemoryMatchesPersisted ==
  (isInitialized /\ inflight = {}) =>
    ReadSet(beaconReads) =
      IF IsSome(stCurrent) THEN ReadSet(Get(stCurrent).beaconReads) ELSE {}

----------------------------------------------------------------------------
(* The recorder while the clock advances *)

\* sessions are started, recorded into, saved and discarded while time
\* passes; the scan start and the read of the saved collection may fail
NextClock ==
  \/ Tick
  \/ initializeApp("on", TRUE)
  \/ \E ioCur \in BOOLEAN, ioGet \in BOOLEAN, ioScan \in BOOLEAN :
       startScanning(ioCur, ioGet, ioScan)
  \/ \E text \in NameTexts, ioGet \in BOOLEAN : saveSession(text, ioGet, TRUE, TRUE)
  \/ clearCurrentSession(TRUE)
  \/ \E peripheral \in Peripherals : discoverPeripheral(peripheral)
  \/ \E h \in inflight : handlerLoad(h, TRUE)
  \/ \E h \in inflight : handlerStore(h, TRUE)

SpecClock == InitConfigured /\ [][NextClock]_vars

\* the times of a session are in order: it starts before each of its reads,
\* and when it has ended it ends after its start and after each of its reads
TimesInOrder(session) ==
  /\ \A i \in 1..Len(session.beaconReads) :
       /\ session.startTime <= session.beaconReads[i].timestamp
       /\ IsSome(session.endTime) =>
            session.beaconReads[i].timestamp <= Get(session.endTime)
  /\ IsSome(session.endTime) => Get(session.endTime) >= session.startTime

\* C12: in every reachable state the persisted current session and every
\* saved session have their times in order: startTime <= timestamp of each
\* read, and for a saved session endTime >= startTime and timestamp <= endTime.
C12_TimesInOrder ==
  /\ IsSome(stCurrent) => TimesInOrder(Get(stCurrent))
  /\ \A i \in 1..Len(stSessions) : TimesInOrder(stSessions[i])

\* C13: a session that start creates has an id that no saved session has.
C13_FreshSessionId ==
  [][(~IsSome(currentSession) /\ IsSome(currentSession')) =>
       \A i \in 1..Len(stSessions) :
         stSessions[i].id # Get(currentSession').id]_vars

----------------------------------------------------------------------------
(* Starting and stopping the scan *)

\* the scan is started and stopped, with every outcome of the calls they
\* make, while time passes and discovery events are recorded
NextScan ==
  \/ Tick
  \/ initializeApp("on", TRUE)
  \/ \E ioCur \in BOOLEAN, ioGet \in BOOLEAN, ioScan \in BOOLEAN :
       startScanning(ioCur, ioGet, ioScan)
  \/ \E ioStop \in BOOLEAN : stopScanning(ioStop)
  \/ \E peripheral \in Peripherals : discoverPeripheral(peripheral)
  \/ \E h \in inflight : handlerLoad(h, TRUE)
  \/ \E h \in inflight : handlerStore(h, TRUE)

SpecScan == InitConfigured /\ [][NextScan]_vars

\* sessions are started, with every outcome of the calls start makes, saved
\* and discarded while time passes and the process restarts; no discovery
\* event is delivered
NextStart ==
  \/ Tick
  \/ Restart
  \/ \E env \in {"denied", "off", "on"}, io \in BOOLEAN : initializeApp(env, io)
  \/ \E ioCur \in BOOLEAN, ioGet \in BOOLEAN, ioScan \in BOOLEAN :
       startScanning(ioCur, ioGet, ioScan)
  \/ \E ioStop \in BOOLEAN : stopScanning(ioStop)
  \/ clearCurrentSession(TRUE)
  \/ \E text \in NameTexts : saveSession(text, TRUE, TRUE, TRUE)

SpecStart == InitConfigured /\ [][NextStart]_vars

\* C14: a start invoked with Bluetooth on and no active session, whose
\* saveCurrentSession succeeds, leaves as persisted current session the
\* session it created: no reads, no endTime, startTime the reading of the
\* clock.  The session is persisted before the scan is started: it is
\* persisted even when the scan then fails to start, and the scan is not
\* started when persisting fails.
C14_StartPersistsFirst ==
  [][\A ioGet \in BOOLEAN, ioScan \in BOOLEAN :
       /\ (~IsSome(currentSession) /\ bluetoothState = "on"
             /\ startScanning(TRUE, ioGet, ioScan)) =>
            /\ IsSome(stCurrent')
            /\ stCurrent' = currentSession'
            /\ Get(stCurrent').beaconReads = <<>>
            /\ ~IsSome(Get(stCurrent').endTime)
            /\ Get(stCurrent').startTime = now
       /\ (~IsSome(currentSession) /\ bluetoothState = "on"
             /\ startScanning(FALSE, ioGet, ioScan)) =>
            UNCHANGED <<stCurrent, bleIsScanning, listeners>>]_vars

\* a session started after the clock advanced is persisted although the scan
\* failed to start
C14_Witness ==
  /\ outcome = "start_failed"
  /\ now > 0
  /\ IsSome(stCurrent) /\ Get(stCurrent).startTime = now
  /\ stCurrent = currentSession
  /\ ~bleIsScanning /\ listeners = 0

\* C15: a start invoked while a session is active creates no session: the
\* session in memory, the persisted current session (id, name, startTime and
\* reads), the saved collection and the in-memory reads stay as they were.
C15_StartWhileActive ==
  [][\A ioCur \in BOOLEAN, ioGet \in BOOLEAN, ioScan \in BOOLEAN :
       (IsSome(currentSession) /\ startScanning(ioCur, ioGet, ioScan)) =>
         UNCHANGED <<currentSession, stCurrent, stSessions, beaconReads>>]_vars

\* the scan was started a second time while the session, which holds a read,
\* was active, and the session is still the one created first
C15_Witness ==
  /\ listeners = 2 /\ bleIsScanning
  /\ IsSome(currentSession) /\ IsSome(stCurrent)
  /\ Get(stCurrent).id = Get(currentSession).id
  /\ Get(stCurrent).startTime < now
  /\ Len(Get(stCurrent).beaconReads) >= 1

\* C19: stopScanning, whether BleManager.stopScan succeeds or not, leaves the
\* persisted current session with its reads, the saved collection, the
\* in-memory session and the in-memory reads as they were.
C19_StopKeepsSession ==
  [][\A ioStop \in BOOLEAN :
       stopScanning(ioStop) =>
         UNCHANGED <<stCurrent, stSessions, currentSession, beaconReads>>]_vars

\* the scan was stopped and every recorded read is still persisted and shown
C19_Witness ==
  /\ ~bleIsScanning /\ ~isScanning /\ listeners >= 1
  /\ inflight = {}
  /\ IsSome(stCurrent) /\ Len(Get(stCurrent).beaconReads) >= 1
  /\ Len(beaconReads) >= 1
  /\ stCurrent # currentSession

\* C16: no step changes or removes a session of the saved collection: every
\* saved session is in the collection afterwards with the same reads, name,
\* startTime and endTime.
C16_SavedSessionsKept ==
  [][\A i \in 1..Len(stSessions) :
       \E j \in 1..Len(stSessions') : stSessions'[j] = stSessions[i]]_vars

\* C17: when save reports success, the session that was active is in the
\* saved collection, under the trimmed name and with its endTime, and no
\* current session is persisted any more.
C17_SuccessAfterBothWrites ==
  [][outcome' = "saved" =>
       /\ stCurrent' = None
       /\ IsSome(currentSession)
       /\ \E i \in 1..Len(stSessions') :
            /\ stSessions'[i].name = <<"x">>
            /\ stSessions'[i] =
                 [Get(currentSession) EXCEPT !.name = <<"x">>,
                                             !.endTime = Some(now)]]_vars

\* success was reported for a session saved after a restart, whose reads had
\* been loaded from storage
C17_Witness ==
  /\ outcome = "saved"
  /\ stCurrent = None /\ ~IsSome(currentSession)
  /\ Len(stSessions) = 1
  /\ Len(stSessions[1].beaconReads) >= 1

\* C18: while a scan is running the criteria the scanner holds do not change,
\* whatever is saved on the settings screen; they change only in a
\* startScanning that finds no scan running.
C18_CriteriaFixedDuringScan ==
  [][/\ (bleIsScanning /\ bleIsScanning') => bleSettings' = bleSettings
     /\ stSettings' # stSettings => bleSettings' = bleSettings
     /\ bleSettings' # bleSettings =>
          /\ ~bleIsScanning
          /\ \E ioCur \in BOOLEAN, ioGet \in BOOLEAN, ioScan \in BOOLEAN :
               startScanning(ioCur, ioGet, ioScan)]_vars

\* settings were saved while a scan was running, and the scanner still holds
\* the criteria it loaded when the scan started
C18_Witness ==
  /\ outcome = "settings_saved"
  /\ bleIsScanning
  /\ IsSome(stSettings) /\ IsSome(bleSettings)
  /\ Get(bleSettings) # Get(stSettings)

----------------------------------------------------------------------------
(* The decoder as a function of the peripheral *)

\* lengths of the manufacturer data
DecoderLengths == {0, 1, 2, 3, 4, 5, 24, 25, 26}

\* the first four bytes: each is the byte of an iBeacon frame or another one
DecoderHeaders ==
  { <<b0, b1, b2, b3>> : b0 \in {76, 77}, b1 \in {0, 76}, b2 \in {2, 0}, b3 \in {21, 2} }

\* the manufacturer data with the header h, cut or extended to n bytes
DecoderBytes(h, n) ==
  [i \in 1..n |-> IF i <= 4 THEN h[i]
                  ELSE IF i <= 20 THEN FixtureUuidBytes[i - 4]
                  ELSE IF i = 22 \/ i = 23 THEN 1
                  ELSE IF i = 25 THEN 197
                  ELSE 0]

DecoderInputs ==
  { Peripheral(DecoderBytes(h, n), 0 - 50) : h \in DecoderHeaders, n \in DecoderLengths }
    \cup { [advertising |-> None, rssi |-> Some(0 - 50)],
           [advertising |-> Some([manufacturerData |-> None]), rssi |-> Some(0 - 50)] }

InitDecoder ==
  /\ Boot(None)
  /\ pfIn \in { [peripheral |-> p] : p \in DecoderInputs }
  /\ pfOut = None

\* the decoder is applied to the input
applyDecoder ==
  /\ pfOut = None
  /\ pfOut' = Some(parseIBeaconData(pfIn.peripheral))
  /\ UNCHANGED <<now, nextRead, storageVars, bleVars, scanVars, formVars, outcome, pfIn>>

SpecDecoder == InitDecoder /\ [][applyDecoder]_vars

\* the manufacturer data of a peripheral, <<>> for an absent one
BytesOf(peripheral) ==
  IF IsSome(peripheral.advertising)
       /\ IsSome(Get(peripheral.advertising).manufacturerData)
  THEN Get(Get(peripheral.advertising).manufacturerData)
  ELSE <<>>

\* C20: the decoder returns "not recognized" for manufacturer data that is
\* absent or shorter than 25 bytes, and for data of 25 or more bytes whose
\* bytes 0-1 are not 4C 00 or whose bytes 2-3 are not 02 15.
C20_NotRecognized ==
  IsSome(pfOut) =>
    ((\/ Len(BytesOf(pfIn.peripheral)) < 25
      \/ SubSeq(BytesOf(pfIn.peripheral), 1, 2) # <<76, 0>>
      \/ SubSeq(BytesOf(pfIn.peripheral), 3, 4) # <<2, 21>>)
       => ~IsSome(Get(pfOut)))

\* a frame of 25 bytes from Apple whose type bytes are not 02 15 was not
\* recognized
C20_Witness ==
  /\ pfOut = Some(None)
  /\ Len(BytesOf(pfIn.peripheral)) = 25
  /\ SubSeq(BytesOf(pfIn.peripheral), 1, 2) = <<76, 0>>
  /\ SubSeq(BytesOf(pfIn.peripheral), 3, 4) # <<2, 21>>

----------------------------------------------------------------------------
(* The decoder and the read it leads to, as functions of an iBeacon frame *)

\* byte values on both sides of the one-digit/two-digit and the sign limits
FrameByteValues == {0, 1, 9, 10, 15, 16, 127, 128, 159, 160, 255}

\* sixteen equal bytes of every value, and the fixture with one byte replaced
UuidByteSeqs ==
  { [i \in 1..16 |-> b] : b \in 0..255 }
    \cup { [FixtureUuidBytes EXCEPT ![k] = b] : k \in 1..16, b \in FrameByteValues }
    \cup { FixtureUuidBytes, OtherUuidBytes }

FrameInputs ==
  { Peripheral(Frame(u, 0, 1, 1, 0, 197), 0 - 70) : u \in UuidByteSeqs }
    \cup { Peripheral(Frame(FixtureUuidBytes, a, b, c, d, tx), 0 - 70) :
             a \in {0, 1, 127, 128, 255}, b \in {0, 1, 127, 128, 255},
             c \in {0, 1, 127, 128, 255}, d \in {0, 1, 127, 128, 255},
             tx \in {0, 197, 255} }
    \cup { Peripheral(Frame(FixtureUuidBytes, 0, 1, 1, 0, 197), r) :
             r \in (0 - 101)..1 }
    \cup { [advertising |-> Some([manufacturerData |->
                                    Some(Frame(FixtureUuidBytes, 0, 1, 1, 0, 197))]),
            rssi |-> None] }

\* criteria that let every signal strength of the fixture beacon through
FrameSettings ==
  [targetUuid |-> ConfiguredSettings.targetUuid, rssiThreshold |-> 0 - 100]

InitFrame ==
  /\ Boot(None)
  /\ pfIn \in { [peripheral |-> p, settings |-> FrameSettings] : p \in FrameInputs }
  /\ pfOut = None

\* handlePeripheralDiscovered up to the creation of the read: the frame is
\* decoded, filtered, and the BeaconRead is built from the decoded data
applyFrame ==
  /\ pfOut = None
  /\ LET beaconData == parseIBeaconData(pfIn.peripheral)
     IN  pfOut' = Some([beaconData |-> beaconData,
                        beaconRead |->
                          IF IsSome(beaconData)
                               /\ PassesFilter(Get(beaconData), pfIn.settings)
                          THEN Some(newBeaconRead(Get(beaconData), nextRead))
                          ELSE None])
  /\ UNCHANGED <<now, nextRead, storageVars, bleVars, scanVars, formVars, outcome, pfIn>>

SpecFrame == InitFrame /\ [][applyFrame]_vars

UpperHexDigits ==
  <<"0","1","2","3","4","5","6","7","8","9","A","B","C","D","E","F">>

\* the 36 characters 8-4-4-4-12 of sixteen bytes: character i is a hyphen at
\* 9, 14, 19 and 24, and else the high or the low digit of its byte
RenderedUuid(bytes) ==
  [i \in 1..36 |->
     IF i \in {9, 14, 19, 24} THEN "-"
     ELSE LET k == i - Cardinality({h \in {9, 14, 19, 24} : h < i})
              b == bytes[(k + 1) \div 2]
          IN  IF k % 2 = 1 THEN UpperHexDigits[(b \div 16) + 1]
              ELSE UpperHexDigits[(b % 16) + 1]]

\* C21: the decoder renders bytes 4..19 of a recognized frame as an uppercase
\* 8-4-4-4-12 string of two hexadecimal digits per byte, in byte order; the
\* bytes E1 01 B3 92 AD A3 22 24 23 16 05 EF 58 77 49 25 give
\* E101B392-ADA3-2224-2316-05EF58774925.
C21_UuidRendering ==
  (IsSome(pfOut) /\ IsSome(Get(pfOut).beaconData)) =>
    LET bytes == SubSeq(BytesOf(pfIn.peripheral), 5, 20)
        uuid  == Get(Get(pfOut).beaconData).uuid
    IN  /\ uuid = RenderedUuid(bytes)
        /\ Len(uuid) = 36
        /\ bytes = FixtureUuidBytes => uuid = HyphenatedDefaultUuid

\* a UUID with a byte below 16 and a byte with letter digits was decoded
C21_Witness ==
  /\ IsSome(pfOut) /\ IsSome(Get(pfOut).beaconData)
  /\ LET bytes == SubSeq(BytesOf(pfIn.peripheral), 5, 20)
     IN  /\ bytes[2] = 10
         /\ bytes[1] = 225
         /\ Get(Get(pfOut).beaconData).uuid[3] = "0"
         /\ Get(Get(pfOut).beaconData).uuid[4] = "A"

\* the peripheral with byte 24 of its frame replaced by tx
WithTxPower(peripheral, tx) ==
  [peripheral EXCEPT !.advertising =
     Some([manufacturerData |-> Some([BytesOf(peripheral) EXCEPT ![25] = tx])])]

\* C22: for a recognized frame major = 256 * byte 20 + byte 21 and
\* minor = 256 * byte 22 + byte 23, both within 0..65535, and byte 24 has no
\* influence on the decoded result.
C22_MajorMinorBigEndian ==
  (IsSome(pfOut) /\ IsSome(Get(pfOut).beaconData)) =>
    LET d == BytesOf(pfIn.peripheral)
        beaconData == Get(Get(pfOut).beaconData)
    IN  /\ beaconData.major = 256 * d[21] + d[22]
        /\ beaconData.minor = 256 * d[23] + d[24]
        /\ beaconData.major \in 0..65535
        /\ beaconData.minor \in 0..65535
        /\ \A tx \in {0, 197, 255} :
             parseIBeaconData(WithTxPower(pfIn.peripheral, tx)) = Some(beaconData)

\* a frame with high and low bytes that share bits and differ, and a tx byte
\* other than the fixture's, was decoded
C22_Witness ==
  /\ IsSome(pfOut) /\ IsSome(Get(pfOut).beaconData)
  /\ LET d == BytesOf(pfIn.peripheral)
     IN  /\ d[21] = 1 /\ d[22] = 255
         /\ d[23] = 128 /\ d[24] = 127
         /\ d[25] = 255
  /\ Get(Get(pfOut).beaconData).major = 511
  /\ Get(Get(pfOut).beaconData).minor = 32895

\* C23: the decoded advertisement carries the signal strength of the
\* discovery event unchanged for every integer from -100 to 0, and the
\* BeaconRead created from the advertisement stores that same value.
C23_RssiCarried ==
  (IsSome(pfOut) /\ IsSome(Get(pfOut).beaconData)
     /\ IsSome(pfIn.peripheral.rssi)
     /\ Get(pfIn.peripheral.rssi) \in (0 - 100)..0) =>
    /\ Get(Get(pfOut).beaconData).rssi = Get(pfIn.peripheral.rssi)
    /\ IsSome(Get(pfOut).beaconRead) =>
         Get(Get(pfOut).beaconRead).rssi = Get(pfIn.peripheral.rssi)
    /\ PassesFilter(Get(Get(pfOut).beaconData), pfIn.settings) =>
         IsSome(Get(pfOut).beaconRead)

\* a read was created from an event at the lower end of the range
C23_Witness ==
  /\ IsSome(pfOut) /\ IsSome(Get(pfOut).beaconRead)
  /\ pfIn.peripheral.rssi = Some(0 - 100)
  /\ Get(Get(pfOut).beaconRead).rssi = 0 - 100

\* a read was created from an event with signal strength 0
C23_WitnessZero ==
  /\ IsSome(pfOut) /\ IsSome(Get(pfOut).beaconRead)
  /\ pfIn.peripheral.rssi = Some(0)
  /\ Get(Get(pfOut).beaconRead).rssi = 0

----------------------------------------------------------------------------
(* Events the decoder does not recognize *)

\* what parseIBeaconData may return: null, or the four fields of an iBeacon
DecoderResult(r) ==
  \/ r = None
  \/ /\ IsSome(r)
     /\ DOMAIN Get(r) = {"uuid", "major", "minor", "rssi"}
     /\ Len(Get(r).uuid) = 36
     /\ Get(r).major \in 0..65535
     /\ Get(r).minor \in 0..65535
     /\ Get(r).rssi \in Int

----------------------------------------------------------------------------
(* The saved collection *)

\* C25: when save reports success the saved collection holds exactly one
\* session with the id of the saved session, equal to it, every session with
\* another id is still in the collection unchanged, and the ids in the
\* collection are pairwise distinct.
C25_UpsertById ==
  [][outcome' = "saved" =>
       /\ IsSome(currentSession)
       /\ LET s == [Get(currentSession) EXCEPT !.name = <<"x">>,
                                               !.endTime = Some(now)]
          IN  /\ Cardinality({i \in 1..Len(stSessions') : stSessions'[i].id = s.id}) = 1
              /\ \A i \in 1..Len(stSessions') :
                   stSessions'[i].id = s.id => stSessions'[i] = s
              /\ \A i \in 1..Len(stSessions) :
                   stSessions[i].id # s.id =>
                     \E j \in 1..Len(stSessions') : stSessions'[j] = stSessions[i]
       /\ \A i \in 1..Len(stSessions'), j \in 1..Len(stSessions') :
            stSessions'[i].id = stSessions'[j].id => i = j]_vars

----------------------------------------------------------------------------
(* SessionsScreen: the list of saved sessions *)

\* Array.prototype.sort with (a, b) => b.startTime - a.startTime: x is put
\* before the first session that started earlier, behind those that started
\* at the same time (the sort is stable)
insertByRecency(sorted, x) ==
  LET later == { i \in 1..Len(sorted) : sorted[i].startTime < x.startTime }
      k == IF later = {} THEN Len(sorted) + 1
           ELSE CHOOSE i \in later : \A j \in later : i <= j
  IN  SubSeq(sorted, 1, k - 1) \o <<x>> \o SubSeq(sorted, k, Len(sorted))

RECURSIVE sortByRecency(_)
sortByRecency(sessions) ==
  IF sessions = <<>> THEN <<>>
  ELSE insertByRecency(sortByRecency(SubSeq(sessions, 1, Len(sessions) - 1)),
                       sessions[Len(sessions)])

\* a saved session with the id suffix k that started at t
SavedSession(k, t) ==
  [id          |-> <<"session_", k>>,
   name        |-> <<"x">>,
   startTime   |-> t,
   endTime     |-> Some(t),
   beaconReads |-> <<>>]

MaxSaved == 3
SavedTimes == 0..2

\* the saved collections of up to MaxSaved sessions with distinct ids, in
\* every order of insertion and with every start time
SavedCollections ==
  UNION { { [i \in 1..n |-> SavedSession(ks[i], ts[i])] :
              ks \in { f \in [1..n -> 1..MaxSaved] :
                         \A i \in 1..n, j \in 1..n : f[i] = f[j] => i = j },
              ts \in [1..n -> SavedTimes] } : n \in 0..MaxSaved }

InitList ==
  /\ now = 0
  /\ nextRead = 1
  /\ stSettings = None
  /\ stSessions \in SavedCollections
  /\ stCurrent = None
  /\ bleIsScanning = FALSE
  /\ bleSettings = None
  /\ bleCallbackSet = FALSE
  /\ listeners = 0
  /\ inflight = {}
  /\ initPending = TRUE
  /\ isInitialized = FALSE
  /\ bluetoothState = "unknown"
  /\ isScanning = FALSE
  /\ currentSession = None
  /\ beaconReads = <<>>
  /\ settingsOpen = FALSE
  /\ formSettings = DefaultSettings
  /\ outcome = "none"
  /\ pfIn \in { [io |-> io] : io \in BOOLEAN }
  /\ pfOut = None

\* loadSessions of the screen: the sessions it shows are those getSessions
\* returns, sorted; pfIn.io is whether AsyncStorage.getItem succeeds
loadSessions ==
  /\ pfOut = None
  /\ pfOut' = Some(sortByRecency(getSessions(pfIn.io)))
  /\ UNCHANGED <<now, nextRead, storageVars, bleVars, scanVars, formVars, outcome, pfIn>>

SpecList == InitList /\ [][loadSessions]_vars

\* the list is in descending order of startTime and holds exactly the
\* sessions of the collection
ListsByRecency(listed, saved) ==
  /\ \A i \in 1..Len(listed), j \in 1..Len(listed) :
       i < j => listed[i].startTime >= listed[j].startTime
  /\ Len(listed) = Len(saved)
  /\ { listed[i] : i \in 1..Len(listed) } = { saved[i] : i \in 1..Len(saved) }

\* C26: the sessions the screen lists are in descending order of startTime
\* and are exactly the sessions of the saved collection, whatever the order
\* of the collection.
C26_ListedByRecency ==
  IsSome(pfOut) => ListsByRecency(Get(pfOut), stSessions)

\* the same for the loads whose read of the collection succeeds
ListedByRecencyWhenRead ==
  (IsSome(pfOut) /\ pfIn.io) => ListsByRecency(Get(pfOut), stSessions)

\* a collection of three sessions stored oldest first was listed newest first
ListedReordered ==
  /\ IsSome(pfOut) /\ pfIn.io
  /\ Len(stSessions) = 3
  /\ stSessions[1].startTime = 0 /\ stSessions[2].startTime = 1
  /\ stSessions[3].startTime = 2
  /\ Get(pfOut) = <<stSessions[3], stSessions[2], stSessions[1]>>

----------------------------------------------------------------------------
(* Restart *)

\* C27: when the screen has initialized after a restart while a current
\* session is persisted, the session in memory is the persisted one and the
\* reads in memory are its reads.
C27_RestartRecovers ==
  [][(initPending /\ isInitialized' /\ IsSome(stCurrent)) =>
       /\ currentSession' = stCurrent
       /\ beaconReads' = Get(stCurrent).beaconReads]_vars

----------------------------------------------------------------------------
(* The default criteria *)

\* C28: while a scan runs on a persisted session and no settings are stored,
\* the handler accepts a well-formed iBeacon frame with the UUID bytes
\* E1 01 B3 92 AD A3 22 24 23 16 05 EF 58 77 49 25 received at -70 or above.
C28_DefaultBeaconAccepted ==
  (~IsSome(stSettings) /\ bleIsScanning /\ listeners >= 1 /\ IsSome(stCurrent)) =>
    \A rssi \in {0 - 70, 0 - 50, 0} :
      accepts(Peripheral(Frame(FixtureUuidBytes, 0, 1, 1, 0, 197), rssi))

\* C29: a save of the form that holds the default settings, as loaded with
\* nothing stored or after Reset to Defaults, is not refused by the UUID
\* check or the RSSI check, and when the write succeeds the defaults are
\* the stored settings.
C29_DefaultsPassValidation ==
  [][\A io \in BOOLEAN :
       (formSettings = DefaultSettings /\ saveSettings(io)) =>
         /\ outcome' \notin {"invalid_uuid", "invalid_rssi"}
         /\ io => stSettings' = Some(DefaultSettings)]_vars

----------------------------------------------------------------------------
(* The current-session marker after save and discard *)

\* C30: a step that makes a current session persisted where none was is a
\* start: the persisted session is the new, empty session now in memory.
\* In particular no record call in flight writes a saved or discarded
\* session back as the current one.
C30_NoResurrection ==
  [][(~IsSome(stCurrent) /\ IsSome(stCurrent')) =>
       /\ currentSession' = stCurrent'
       /\ Get(stCurrent').beaconReads = <<>>]_vars

----------------------------------------------------------------------------
(* SessionsScreen: deleting a saved session *)

\* sessions.filter(s => s.id !== sessionId)
filterSessions(sessions, sessionId) ==
  SelectSeq(sessions, LAMBDA s : s.id # sessionId)

\* the ids of the sessions a delete button can belong to
SavedIds == { <<"session_", k>> : k \in 1..MaxSaved }

\* deleteSession of the screen, confirmed: StorageService.deleteSession, then
\* loadSessions, then the success alert.  ioGet: getItem inside
\* StorageService.deleteSession succeeds; ioSet: its setItem succeeds;
\* ioLoad: getItem of the loadSessions that follows succeeds.
deleteSession(sessionId, ioGet, ioSet, ioLoad) ==
  /\ IF ~ioSet
     THEN /\ outcome' = "delete_failed"
          /\ UNCHANGED <<stSessions, pfOut>>
     ELSE /\ stSessions' = filterSessions(getSessions(ioGet), sessionId)
          /\ pfOut' = Some(sortByRecency(IF ioLoad THEN stSessions' ELSE <<>>))
          /\ outcome' = "deleted"
  /\ UNCHANGED <<now, nextRead, stSettings, stCurrent, bleVars, scanVars,
                 formVars, pfIn>>

NextSaved ==
  \E sessionId \in SavedIds, ioGet \in BOOLEAN, ioSet \in BOOLEAN, ioLoad \in BOOLEAN :
    deleteSession(sessionId, ioGet, ioSet, ioLoad)

SpecSaved == InitList /\ [][NextSaved]_vars

\* C31: a delete leaves every saved session other than the deleted one in
\* the collection, unchanged, also when its read of the collection fails.
C31_LoadFailureKeepsSessions ==
  [][\A sessionId \in SavedIds, ioGet \in BOOLEAN, ioSet \in BOOLEAN, ioLoad \in BOOLEAN :
       deleteSession(sessionId, ioGet, ioSet, ioLoad) =>
         \A i \in 1..Len(stSessions) :
           stSessions[i].id # sessionId =>
             \E j \in 1..Len(stSessions') : stSessions'[j] = stSessions[i]]_vars

\* the same for the deletes whose read of the collection succeeds
DeleteKeepsOthersWhenRead ==
  [][\A sessionId \in SavedIds, ioSet \in BOOLEAN, ioLoad \in BOOLEAN :
       deleteSession(sessionId, TRUE, ioSet, ioLoad) =>
         /\ \A i \in 1..Len(stSessions) :
              stSessions[i].id # sessionId =>
                \E j \in 1..Len(stSessions') : stSessions'[j] = stSessions[i]
         /\ ioSet => \A j \in 1..Len(stSessions') : stSessions'[j].id # sessionId]_vars

----------------------------------------------------------------------------
(* Save and the running scan *)

\* C32: a save that reports failure has changed neither the saved
\* collection nor the persisted current session, and no session is at once
\* in the saved collection and persisted as the current session.
C32_SaveAllOrNothing ==
  [][outcome' = "save_failed" =>
       /\ stSessions' = stSessions
       /\ stCurrent' = stCurrent
       /\ IsSome(stCurrent') =>
            \A i \in 1..Len(stSessions') : stSessions'[i].id # Get(stCurrent').id]_vars

\* C33: whenever the scanner is scanning, a current session is persisted.
C33_ScanningHasSession ==
  bleIsScanning => IsSome(stCurrent)

====
